---- MODULE Spec2Model ----
(***************************************************************************)
(* The time-targeted submission race engine of the Pi auto-transfer bot.   *)
(* One invocation of exports.handler is one behaviour.  The repository     *)
(* holds several versions of the handler; `variant` selects the one that   *)
(* runs:                                                                   *)
(*   "v7"   src/netlify/functions/submitTransaction.js  (fee bumping,      *)
(*          fire and forget, wall-clock bound)                             *)
(*   "sync" src/unnamed/part_002            (awaited, wall-clock bound)    *)
(*   "v6"   src/unnamed/part_007:1-147      (awaited, wall-clock bound)    *)
(*   "v9"   src/unnamed/part_003:117-246    (awaited, 15 attempts)         *)
(*   "v11"  src/unnamed/part_008            (awaited, 20 attempts)         *)
(*   "v11u" src/unnamed/part_007:225-343    (awaited, 20 attempts)         *)
(* Six more handlers take part in the single-attempt specification:        *)
(*   "https" src/unnamed/part_003:248-393   (part_002 with a time source   *)
(*           read over https, whose failure rejects)                       *)
(*   "shot"  src/unnamed/part_003:1-115     (single shot, may revoke the   *)
(*           sponsorship first)                                            *)
(*   "v15"   src/unnamed/part_007:149-223   (single shot, v15.0)           *)
(*   "v16"   src/unnamed/part_004           (single shot, v16.0: reads the *)
(*           amount off the claimable balance, the sponsor pays)           *)
(*   "v151"  src/unnamed/part_006           (single shot, v15.1: claims    *)
(*           only, the sponsor pays)                                       *)
(*   "pred"  src/unnamed/part_001           (awaited, wall-clock bound,    *)
(*           fixed fee, no clock sync and no gate)                         *)
(* Time is in milliseconds; `now` is Date.now() - startTime.               *)
(***************************************************************************)
EXTENDS Integers, Sequences, FiniteSets, TLC

VARIABLES
    variant,     \* which version of exports.handler runs
    req,         \* the parsed request (params), immutable
    env,         \* what the invocation finds: the clocks and the time source
    clock,       \* the clock getPiServerTime answered from ("none": not asked yet)
    syncMs,      \* ms after entry at which getPiServerTime ran `return new Date()`
                 \* (0: it has not)
    pc,          \* position of the handler
    now,         \* Date.now() - startTime, ms
    timer,       \* ms of the setTimeout the handler is suspended on
    attempt,     \* loop iteration (the for-loop's `attempt`; counted for while-loops)
    account,     \* sequence number held by the local `accountToLoad` object
    snapUses,    \* transactions built from the current `accountToLoad` object
    ledgerSeq,   \* sequence number of the fee-source account on the ledger
    currentFee,  \* v7.0: the total fee the next attempt is computed from
    tx,          \* the transaction built by the current attempt
    earlier,     \* the transactions built by the attempts before it
    answer,      \* how the ledger settled the latest submitTransaction
    observed,    \* the `error` bound by the loop's latest catch
    inFlight,    \* submissions issued whose outcome the handler has not learned
    pending,     \* v7.0: the submissions nobody awaits, oldest first, with the instant each was sent
    accepted,    \* submissions of this invocation the ledger has accepted
    lastError,   \* the handler's `lastError` variable (wall-clock racers)
    waited,      \* ms the schedule gate suspended the handler for
    result       \* the response the handler returned

vars == <<variant, req, env, clock, syncMs, pc, now, timer, attempt, account, snapUses, ledgerSeq,
          currentFee, tx, earlier, answer, observed, inFlight, pending, accepted, lastError, waited, result>>

----------------------------------------------------------------------------
(* Bounds of the model *)

\* the ledger sequence number other writers may push the account to
MaxSeq == 1
\* the longest a remote call (loadAccount, submitTransaction) takes, ms
MaxLatency == 2000

\* the largest customFee of the fee-policy requests
MaxCustomFee == 12
\* the largest recordsPerAttempt of the fee-policy requests
MaxRecords == 3
\* the most submissions the scripted ledger rejects before it accepts one
MaxStale == 5
\* the largest feeMultiplier of the requests
MaxMultiplier == 3

Latencies == {0, MaxLatency}

Variants == {"v7", "sync", "v6", "v9", "v11", "v11u"}

\* the handlers that build one transaction and submit it once
SingleShots == {"shot", "v15"}

\* the single shots the sponsor always pays for: they check their fields
SponsoredShots == {"v16", "v151"}

\* the handlers without a loop
OneShots == SingleShots \cup SponsoredShots

\* every handler of the repository that submits a transaction
Handlers == Variants \cup {"https", "pred"} \cup OneShots

----------------------------------------------------------------------------
(* Program constants *)

WallClock(v) == v \in {"v7", "sync", "v6", "https", "pred"}

\* a race that still admits an iteration 6000 ms after its start
RACE_DURATION_MS_Longer(v) == 6001

\* const RACE_DURATION_MS = 6000;
RACE_DURATION_MS(v) == 6000

\* a loop that does not wait between its attempts
ATTEMPT_DELAY_MS_None(v) == 0

\* const ATTEMPT_DELAY_MS / RETRY_DELAY_MS
ATTEMPT_DELAY_MS(v) ==
    CASE v = "v7"   -> 400
      [] v = "sync" -> 250
      [] v = "https" -> 250
      [] v = "pred" -> 250
      [] v = "v6"   -> 600
      [] v = "v9"   -> 1500
      [] v = "v11"  -> 1500
      [] v = "v11u" -> 1000

\* a loop with room for a 21st iteration
MAX_ATTEMPTS_OneMore(v) == 21

\* const MAX_ATTEMPTS
MAX_ATTEMPTS(v) ==
    CASE v = "v9"   -> 15
      [] v = "v11"  -> 20
      [] v = "v11u" -> 20

\* v9.0: setTimeout(resolve, 3000) after HTTP 429
RateLimitWaitMs(v) == 3000

\* if (msUntilUnlock > 7000) -> TOO_EARLY
TooEarlyMs(v) == 7000

\* a gate that opens only at the unlock
raceStartWindowMs_None(v) == 0

\* const raceStartWindowMs = 3000;
raceStartWindowMs(v) == 3000

\* a tenth of the increment
feeIncrement_Tenth(v) == 1000

\* const feeIncrement = 10000;
feeIncrement(v) == 10000

\* whether the handler asks getPiServerTime() for the network's clock
HasClockSync(v) == v \in {"v7", "sync", "v6", "https"}

\* axios.head(PI_HORIZON_URL, { timeout: 3000 }); 0: the request carries no timeout
SyncTimeoutMs(v) == IF v \in {"v6", "v7"} THEN 3000 ELSE 0

\* whether a failed time request falls back to new Date() (the https one rejects)
SyncFallsBack(v) == v # "https"

\* timebounds = { minTime, maxTime: minTime + W }: W in seconds
Window(v) ==
    CASE v \in {"v7", "sync", "v6", "https", "pred"} -> 60
      [] v = "v9"   -> 120
      [] v = "v11"  -> 180
      [] v = "v11u" -> 300

\* txBuilder.setTimeout(s) of the single shots and of part_001
TimeoutSeconds(v) == IF v = "shot" THEN 60 ELSE 30

\* what stands for NaN: new Date(undefined).getTime(), and what is computed from it
NaN == -1

----------------------------------------------------------------------------
(* Values *)

NoAccount == [loaded |-> FALSE, sequence |-> 0]
Account(s) == [loaded |-> TRUE, sequence |-> s]

\* a built transaction: the sequence its account object held and the one it
\* carries, its per-operation fee and the base fee fetched for it (0: none), its
\* operations with their arguments, signatures, source account and time bounds
\* (seconds)
NoTx == [built |-> FALSE, seen |-> 0, seq |-> 0, fee |-> 0, base |-> 0,
         ops |-> <<>>, args |-> [balanceId |-> "none", destination |-> "none", amount |-> 0],
         signers |-> <<>>, source |-> "none",
         minTime |-> 0, maxTime |-> 0]

\* What a remote call settles with, and what a catch block binds.
None      == [kind |-> "none",      status |-> 0,   code |-> "none"]
Hash      == [kind |-> "hash",      status |-> 200, code |-> "none"]
NoHash    == [kind |-> "nohash",    status |-> 200, code |-> "none"]
Timeout   == [kind |-> "transport", status |-> 0,   code |-> "none"]
RateLimit == [kind |-> "transport", status |-> 429, code |-> "none"]
Exception == [kind |-> "exception", status |-> 0,   code |-> "none"]
Rejected(c) == [kind |-> "ledger", status |-> 400, code |-> c]

BadSeq       == Rejected("tx_bad_seq")
TooEarlyCode == Rejected("tx_too_early")
Insufficient == Rejected("tx_insufficient_balance")

SubmitErrors == {BadSeq, TooEarlyCode, Insufficient, Timeout, RateLimit}
LoadErrors == {Timeout, RateLimit}

NoResult == [statusCode |-> 0, success |-> FALSE, kind |-> "none", detail |-> None]
Response(sc, ok, k, d) == [statusCode |-> sc, success |-> ok, kind |-> k, detail |-> d]

\* the number the TOO_EARLY message carries
Seconds(n) == [secondsRemaining |-> n]

----------------------------------------------------------------------------
(* Requests and the environment's values *)

\* feeMechanism with customFee (0: customFee is 0, or none is given where the
\* handler only tests it)
FeeChoices == {<<"CUSTOM", 25001>>, <<"AUTOMATIC", 0>>}

\* what server.fetchBaseFee() answers
BaseFees == {100, 200}

\* the time source answers with a Date header, without one, with a transport
\* error, or never
TimeSources == {"date", "nodate", "error", "silent"}

\* the network's clock minus the local one, ms
ServerAheads == {-6000, 0, 700}

\* Date.now() when the handler is entered, ms, with what the time source does
Environment(s, a) == [timeSource |-> s, localNow |-> 100700, serverAhead |-> a]

\* a time source that answers with the local clock's own time
Quiet == Environment("date", 0)

Environments == { Environment(s, a) : s \in TimeSources, a \in ServerAheads }

\* targetUnlockTime - Date.now() at entry
UnlockGaps == {2000, 8000}

WideUnlockGaps ==
    UnlockGaps \cup {-1000, 0, 3000, 3001, 6999, 7000, 7001, 7499, 7500, 8600,
                     10000, 12000}

\* recordsPerAttempt
Records == {1, 2}

\* a well-formed request: POST, no field missing, valid keyphrases;
\* g is new Date(unlockTime).getTime() - Date.now() at entry. `missing` names
\* the one of senderMnemonic, claimableId, unlockTime, receiverAddress the body
\* does not hold ("none": it holds them all); `sponsor` is whether it holds a
\* sponsorMnemonic; feeMultiplier 0 stands for none given
Good(fc, r, g) ==
    [method |-> "POST", missing |-> "none", keyOk |-> TRUE, malformed |-> FALSE,
     feeMechanism |-> fc[1], customFee |-> fc[2], records |-> r,
     unlockTime |-> Quiet.localNow + g,
     feeType |-> "SENDER_PAYS", sponsor |-> FALSE, removeSponsorship |-> FALSE,
     earlyCallTime |-> 0, feeMultiplier |-> 0,
     claimableId |-> "balance", receiverAddress |-> "receiver", amount |-> 10]

\* the request without one of its fields
Without(r, f) ==
    CASE f = "none"            -> r
      [] f = "senderMnemonic"  -> [r EXCEPT !.missing = f]
      [] f = "claimableId"     -> [r EXCEPT !.missing = f, !.claimableId = "undefined"]
      [] f = "unlockTime"      -> [r EXCEPT !.missing = f, !.unlockTime = NaN]
      [] f = "receiverAddress" -> [r EXCEPT !.missing = f, !.receiverAddress = "undefined"]

\* the fields a request may lack
OptionalFields == {"none", "senderMnemonic", "claimableId", "unlockTime", "receiverAddress"}

GoodRequests ==
    { Good(<<"CUSTOM", 25001>>, r, 2000) : r \in Records }
    \cup { Good(<<"AUTOMATIC", 0>>, 1, 2000), Good(<<"CUSTOM", 25001>>, 1, 8000) }

\* one well-formed request and the ways a request can be wrong
Requests ==
    LET base == Good(<<"CUSTOM", 25001>>, 1, 2000)
    IN  GoodRequests \cup
        { [base EXCEPT !.method = "GET"],
          Without(base, "claimableId"),
          [base EXCEPT !.keyOk = FALSE],
          [base EXCEPT !.malformed = TRUE, !.amount = 0] }

\* the requests of the races: each with the quiet environment
Inputs == { <<r, Quiet>> : r \in Requests }

\* every fee mechanism with every custom fee (0: customFee is the number 0)
FeeRequests ==
    { Good(<<m, f>>, r, 2000) :
        m \in {"CUSTOM", "AUTOMATIC", "SPEED_HIGH"},
        f \in 0..MaxCustomFee, r \in 1..MaxRecords }

\* who pays: feeType, a sponsor keyphrase given or not, removeSponsorship
SponsorRequests ==
    { [Good(fc, r, 2000) EXCEPT !.feeType = t, !.sponsor = sp,
                                !.removeSponsorship = rm] :
        fc \in FeeChoices, r \in Records,
        t \in {"SENDER_PAYS", "SPONSOR_PAYS"}, sp \in BOOLEAN, rm \in BOOLEAN }

\* when: the unlock instant against both clocks
TimedRequests == { Good(<<"CUSTOM", 25001>>, 1, g) : g \in WideUnlockGaps }

\* earlyCallTime, ms (0: none is given); it may be negative
EarlyCallTimes == {-1000, 0, 500, 2000, 9000}

\* when, with an early call: the unlock instant and the offset
EarlyRequests ==
    { [Good(<<"CUSTOM", 25001>>, 1, g) EXCEPT !.earlyCallTime = o] :
        g \in WideUnlockGaps, o \in EarlyCallTimes }

\* every combination of what the checks before the race look at
OrderRequests ==
    { Without([Good(<<fm, 25001>>, 1, g) EXCEPT !.method = m, !.keyOk = k], f) :
        fm \in {"CUSTOM", "AUTOMATIC"}, g \in UnlockGaps,
        m \in {"POST", "GET"}, f \in OptionalFields, k \in BOOLEAN }

\* feeMultiplier with recordsPerAttempt, with and without a sponsor keyphrase
MultiplierRequests ==
    { [Good(<<"AUTOMATIC", 0>>, r, 2000) EXCEPT !.feeMultiplier = m, !.sponsor = sp] :
        m \in 0..MaxMultiplier, r \in 1..MaxRecords, sp \in BOOLEAN }

\* a sponsored request without one of its fields
SponsoredRequests ==
    { Without([Good(fc, 1, 2000) EXCEPT !.sponsor = TRUE, !.feeType = "SPONSOR_PAYS",
                                        !.keyOk = k], f) :
        fc \in FeeChoices, f \in OptionalFields, k \in BOOLEAN }

\* the requests of the single-attempt specification
AttemptInputs ==
    Inputs
    \cup { <<r, Quiet>> : r \in FeeRequests \cup SponsorRequests \cup EarlyRequests
                                \cup OrderRequests \cup MultiplierRequests
                                \cup SponsoredRequests }
    \cup (TimedRequests \X Environments)

----------------------------------------------------------------------------
(* Pure helpers *)

\* Math.ceil(a / b) for a >= 0, b > 0
Ceil(a, b) == (a + b - 1) \div b

\* if (!senderMnemonic || !claimableId || !unlockTime): the fields the handler
\* asks for before it derives a key (the single shots ask for none)
RequiredFields(v) ==
    CASE v \in SingleShots -> {}
      [] v = "pred" -> {"senderMnemonic", "claimableId"}
      [] v = "v16"  -> {"senderMnemonic", "sponsorMnemonic", "claimableId", "receiverAddress"}
      [] v = "v151" -> {"senderMnemonic", "sponsorMnemonic", "claimableId"}
      [] OTHER      -> {"senderMnemonic", "claimableId", "unlockTime"}

\* whether the body holds every field the handler asks for
FieldsPresent(v, r) ==
    /\ r.missing \notin RequiredFields(v)
    /\ "sponsorMnemonic" \in RequiredFields(v) => r.sponsor

\* parseInt(recordsPerAttempt, 10); v11.0 Ultimate and part_001 always build one pair
EffectiveRecords(v, r) == IF v \in {"v11u", "pred"} THEN 1 ELSE r.records

\* const totalOperations = parseInt(recordsPerAttempt, 10) * 2; v15.1 claims only
totalOperations(v, r) ==
    CASE v \in {"v11u", "pred"} -> 2
      [] v = "v151" -> r.records
      [] OTHER      -> r.records * 2

\* parseInt(feeMultiplier, 10) || 1
FeeMultiplier(r) == IF r.feeMultiplier = 0 THEN 1 ELSE r.feeMultiplier

\* feeMechanism === 'CUSTOM' && customFee
UsesCustomFee(r) == r.feeMechanism = "CUSTOM" /\ r.customFee # 0

\* the fee policy of each handler: the per-operation fee handed to TransactionBuilder
FeePerOperation(v, r, cur, baseFee) ==
    IF v = "v7" THEN Ceil(cur, totalOperations(v, r))
    ELSE IF v = "pred" THEN 200
    ELSE IF v \in {"v15", "v16", "v151"}
    THEN baseFee * FeeMultiplier(r) * totalOperations(v, r)
    ELSE IF UsesCustomFee(r) THEN Ceil(r.customFee, totalOperations(v, r))
    ELSE IF v \in {"v11", "v11u"} THEN baseFee
    ELSE IF r.feeMechanism = "SPEED_HIGH" THEN baseFee * 10
    ELSE baseFee

\* the fee moving the wrong way
Bump_Down(v, cur) == IF v = "v7" THEN cur - feeIncrement(v) ELSE cur

\* whether the attempt awaits server.fetchBaseFee()
FetchesBaseFee(v, r) ==
    \/ v \in {"v15", "v16", "v151"}
    \/ v \notin {"v7", "pred"} /\ ~UsesCustomFee(r)

\* part_003:45-46: `const totalOperations` is assigned again, which throws
ConstReassigned(v, r) == v = "shot" /\ r.removeSponsorship /\ UsesCustomFee(r)

\* amount.toString() of an amount the body does not hold throws; v16.0 pays the
\* balance's amount and v15.1 pays nothing, neither reads the request's
AmountThrows(v, r) == r.malformed /\ v \notin SponsoredShots

\* part_001:68-76: timebounds with a maxTime are handed to the builder, and
\* setTimeout(30) then refuses to overwrite it
TimeoutRefused(v, r) == v = "pred" /\ r.missing # "unlockTime"

\* an undefined balance id or destination, or a NaN minTime, is handed to the
\* SDK, which may build with it or throw
LibraryDecides(v, r) ==
    \/ r.missing = "claimableId"
    \/ r.missing = "receiverAddress" /\ v # "v151"
    \/ r.missing = "unlockTime" /\ v = "v15"

\* for (i < recordsPerAttempt) addOperation(claimClaimableBalance).addOperation(payment)
RECURSIVE Pairs(_)
Pairs(n) == IF n = 0 THEN <<>> ELSE Pairs(n - 1) \o <<"claim", "payment">>

\* for (i < numOperations) addOperation(claimClaimableBalance)
RECURSIVE Claims(_)
Claims(n) == IF n = 0 THEN <<>> ELSE Claims(n - 1) \o <<"claim">>

\* the operations of the transaction, in the order they are added
Operations(v, r) ==
    IF v = "v151" THEN Claims(r.records)
    ELSE (IF v = "shot" /\ r.removeSponsorship THEN <<"revokeSponsorship">> ELSE <<>>)
         \o Pairs(EffectiveRecords(v, r))

\* a sponsor keypair made from any sponsor keyphrase, whatever feeType says
SponsorParticipates_AnyPhrase(v, r) == v # "v11u" /\ r.sponsor

\* sponsorKeypair !== null (v15.0: hasSponsor)
SponsorParticipates(v, r) ==
    CASE v = "v11u" -> FALSE
      [] v = "v15"  -> r.sponsor
      [] v \in SponsoredShots -> TRUE
      [] OTHER      -> r.feeType = "SPONSOR_PAYS" /\ r.sponsor

\* feeSourceAccountPublicKey: the account that is loaded and pays
FeeSource(v, r) == IF SponsorParticipates(v, r) THEN "sponsor" ELSE "sender"

\* transaction.sign(senderKeypair); if (sponsorKeypair) transaction.sign(sponsorKeypair);
Signers(v, r) ==
    <<"sender">> \o (IF SponsorParticipates(v, r) THEN <<"sponsor">> ELSE <<>>)

\* a minTime left in milliseconds
MinTime_Millis(v, r) == r.unlockTime

\* Math.floor(targetUnlockTime.getTime() / 1000); 0 where the builder is given
\* no timebounds
MinTime(v, r) ==
    CASE v \in {"shot", "v16", "v151"} -> 0
      [] v = "v15"  -> IF r.missing = "unlockTime" THEN NaN
                       ELSE (r.unlockTime \div 1000) - 120
      [] v = "pred" -> IF r.missing = "unlockTime" THEN 0 ELSE r.unlockTime \div 1000
      [] OTHER      -> r.unlockTime \div 1000

\* maxTime: minTime + W; setTimeout counts from Date.now(), t ms after the
\* handler was entered
MaxTime(v, r, e, t) ==
    IF v \in OneShots \cup {"pred"}
    THEN ((e.localNow + t) \div 1000) + TimeoutSeconds(v)
    ELSE MinTime(v, r) + Window(v)

\* how long the HEAD request of getPiServerTime may take to settle, ms: less
\* than its timeout where it carries one
HeadLatencies(v) ==
    { l \in Latencies : SyncTimeoutMs(v) = 0 \/ l < SyncTimeoutMs(v) }

\* targetUnlockTime.getTime() - piServerTimeNow.getTime(); c is the clock
\* getPiServerTime answered from: the network's (the Date header), or the local
\* one, read by `return new Date()` d ms after the handler was entered, when
\* the request had failed, carried no Date header or timed out (v11.0 Ultimate
\* reads Date.now() at once)
MsUntilUnlock(v, r, e, c, d) ==
    r.unlockTime -
        (IF c = "server" THEN e.localNow + e.serverAhead ELSE e.localNow + d)

\* a message that cuts the seconds instead of rounding them
RoundSeconds_Floor(ms) == ms \div 1000

\* Math.round(msUntilUnlock / 1000)
RoundSeconds(ms) == (ms + 500) \div 1000

\* the response of the outer catch: `k` names the message of the error it caught
OuterCatch(v, k, e) ==
    IF v \in {"sync", "https", "pred"} \cup OneShots
    THEN Response(IF v \in {"v15", "v16", "v151"} THEN 400 ELSE 500, FALSE, k, e)
    ELSE Response(500, FALSE, "CRITICAL", None)

\* v7.0: currentFee += feeIncrement after every iteration
Bump(v, cur) == IF v = "v7" THEN cur + feeIncrement(v) ELSE cur

\* txBuilder.build(): the transaction carries the account's sequence + 1
BuildSeq(s) == s + 1

\* an account object kept across the iterations of every racer
LoadsInLoop_Never(v) == FALSE

\* a racer that loads the account in every iteration, whatever its version
LoadsInLoop_Always(v) == TRUE

\* whether an iteration awaits server.loadAccount (v7.0 loads once, before the loop)
LoadsInLoop(v) == v # "v7"

\* every racer firing and forgetting like v7.0
Awaits_Never(v) == FALSE

\* v7.0 awaiting its submissions like the other racers
Awaits_Always(v) == TRUE

\* whether the handler awaits server.submitTransaction (v7.0 fires and forgets)
Awaits(v) == v # "v7"

\* every handler taking any resolved submission for a success
ReturnsSuccess_AnyResult(v, a) == TRUE

\* a loop that keeps racing after a confirmed hash
ReturnsSuccess_Never(v, a) == FALSE

\* whether a resolved submission makes the handler return the success response
ReturnsSuccess(v, a) ==
    IF v \in {"sync", "https", "pred"} \cup OneShots THEN TRUE ELSE a.kind = "hash"

\* the branch the loop's catch block takes for `error`; a single shot has only
\* the outer catch
Classify(v, e) ==
    IF WallClock(v) THEN "retry"
    ELSE IF v \in OneShots THEN "fatal"
    ELSE IF v = "v9" /\ e.status = 429 THEN "ratelimit"
    ELSE IF e.code \in {"tx_bad_seq", "tx_too_early"} THEN "retry"
    ELSE "fatal"

\* the response of the catch block's "permanent error" return
PermanentResponse(v, e) ==
    IF v \in OneShots THEN OuterCatch(v, "FAILED", e)
    ELSE Response(400, FALSE, "PERMANENT",
                  IF v = "v11" /\ e.code = "none" THEN None ELSE e)

\* the response once the loop bound is reached
ExhaustedResponse(v, le) ==
    CASE v = "v7"   -> Response(200, TRUE, "RACE_FINISHED", None)
      [] v \in {"sync", "https", "pred"} -> Response(500, FALSE, "DEFEAT", le)
      [] v = "v6"   -> Response(400, FALSE, "RACE_LOST",
                                IF le.code # "none" THEN le ELSE None)
      [] v = "v9"   -> Response(500, FALSE, "ALL_ATTEMPTS_FAILED", None)
      [] v = "v11"  -> Response(400, FALSE, "ALL_ATTEMPTS_FAILED", None)
      [] v = "v11u" -> Response(500, FALSE, "ALL_ATTEMPTS_FAILED", None)

\* operations that claim the recipient's address and pay to the balance id
OperationArgs_Swapped(v, r) ==
    [balanceId |-> r.receiverAddress, destination |-> r.claimableId, amount |-> r.amount]

\* what every claimClaimableBalance and payment of the transaction is given:
\* { balanceId: claimableId }, { destination: receiverAddress, amount: amount.toString() }
OperationArgs(v, r) ==
    [balanceId |-> r.claimableId,
     destination |-> IF v = "v151" THEN "none" ELSE r.receiverAddress,
     amount |-> r.amount]

\* a gate that takes no early-call offset
GateOpensAt_NoOffset(v, r) == IF v = "v11u" THEN 0 ELSE raceStartWindowMs(v)

\* how long before the unlock the suspending gate opens: raceStartWindowMs, or
\* parseInt(earlyCallTime, 10)
GateOpensAt(v, r) == IF v = "v11u" THEN r.earlyCallTime ELSE raceStartWindowMs(v)

\* a while condition that still admits an iteration at the deadline
LoopBoundOpen_AtDeadline(v, t, n) ==
    IF WallClock(v) THEN t <= RACE_DURATION_MS(v) ELSE n <= MAX_ATTEMPTS(v)

\* the while / for condition
LoopBoundOpen(v, t, n) ==
    IF WallClock(v) THEN t < RACE_DURATION_MS(v) ELSE n <= MAX_ATTEMPTS(v)

\* Date.now() - startTime after `ms` more have passed; only the wall-clock
\* racers hold a startTime, and only they and the handlers that call
\* setTimeout on the builder read the clock after they were entered
Elapse(v, t, ms) == IF WallClock(v) \/ v \in OneShots THEN t + ms ELSE t

\* for (...; attempt++)
NextAttempt(n) == n + 1

\* the sequence q without its i-th element
Remove(q, i) == SubSeq(q, 1, i - 1) \o SubSeq(q, i + 1, Len(q))

\* how the ledger may settle a submitted transaction
LedgerAnswers(t, s) ==
    {NoHash} \cup SubmitErrors \cup (IF t.seq = s + 1 THEN {Hash} ELSE {})

\* v6.0 and v7.0 deriving the keys before they look at the clock
Stages_KeysFirst(v) ==
    CASE v = "v7"   -> <<"method", "fields", "mechanism", "keys", "clock", "gate",
                         "preload", "loop">>
      [] v \in {"sync", "https"} -> <<"method", "fields", "keys", "clock", "gate", "loop">>
      [] v = "v6"   -> <<"method", "fields", "keys", "clock", "gate", "loop">>
      [] v = "v9"   -> <<"method", "fields", "keys", "loop">>
      [] v = "v11"  -> <<"method", "fields", "keys", "loop">>
      [] v = "v11u" -> <<"method", "fields", "keys", "gate", "loop">>
      [] v \in SingleShots -> <<"method", "keys", "preload", "build">>
      [] v = "pred" -> <<"method", "fields", "keys", "loop">>
      [] v = "v16"  -> <<"method", "fields", "keys", "balance", "preload", "build">>
      [] v = "v151" -> <<"method", "fields", "keys", "preload", "build">>

\* the order of the handler's steps before the loop
Stages(v) ==
    CASE v = "v7"   -> <<"method", "fields", "mechanism", "clock", "gate", "keys",
                         "preload", "loop">>
      [] v \in {"sync", "https"} -> <<"method", "fields", "keys", "clock", "gate", "loop">>
      [] v = "v6"   -> <<"method", "fields", "clock", "gate", "keys", "loop">>
      [] v = "v9"   -> <<"method", "fields", "keys", "loop">>
      [] v = "v11"  -> <<"method", "fields", "keys", "loop">>
      [] v = "v11u" -> <<"method", "fields", "keys", "gate", "loop">>
      [] v \in SingleShots -> <<"method", "keys", "preload", "build">>
      [] v = "pred" -> <<"method", "fields", "keys", "loop">>
      [] v = "v16"  -> <<"method", "fields", "keys", "balance", "preload", "build">>
      [] v = "v151" -> <<"method", "fields", "keys", "preload", "build">>

After(v, s) ==
    LET i == CHOOSE j \in 1..Len(Stages(v)) : Stages(v)[j] = s
    IN  Stages(v)[i + 1]

----------------------------------------------------------------------------
(* Initial state: the handler is entered with a request *)

\* the handler is entered: nothing of the invocation has happened yet
Entered ==
    /\ clock = "none"
    /\ syncMs = 0
    /\ pc = "method"
    /\ now = 0
    /\ timer = 0
    /\ attempt = 1
    /\ account = NoAccount
    /\ snapUses = 0
    /\ ledgerSeq = 0
    /\ currentFee = 0
    /\ tx = NoTx
    /\ earlier = {}
    /\ answer = None
    /\ observed = None
    /\ inFlight = 0
    /\ pending = <<>>
    /\ accepted = 0
    /\ lastError = None
    /\ waited = 0
    /\ result = NoResult

Init ==
    /\ variant \in Variants
    /\ \E i \in Inputs : req = i[1] /\ env = i[2]
    /\ Entered

\* any handler, entered with any of the wider requests and environments
AttemptInit ==
    /\ variant \in Handlers
    /\ \E i \in AttemptInputs : req = i[1] /\ env = i[2]
    /\ Entered

raceVars == <<now, timer, attempt, account, snapUses, ledgerSeq, currentFee,
              tx, earlier, answer, observed, inFlight, pending, accepted, lastError>>

Return(r) ==
    /\ pc' = "done"
    /\ result' = r

Proceed(s) ==
    /\ pc' = After(variant, s)
    /\ UNCHANGED result

----------------------------------------------------------------------------
(* The handler before the loop *)

\* if (event.httpMethod !== 'POST') return 405
CheckMethod ==
    /\ pc = "method"
    /\ IF req.method # "POST"
       THEN Return(Response(405, FALSE, "METHOD_NOT_ALLOWED", None))
       ELSE Proceed("method")
    /\ UNCHANGED <<variant, req, env, clock, syncMs, raceVars, waited>>

\* if (!senderMnemonic || !claimableId || !unlockTime)
CheckFields ==
    /\ pc = "fields"
    /\ IF ~FieldsPresent(variant, req)
       THEN Return(Response(IF variant \in {"sync", "https", "pred"} THEN 500 ELSE 400,
                            FALSE, "MISSING_FIELDS", None))
       ELSE Proceed("fields")
    /\ UNCHANGED <<variant, req, env, clock, syncMs, raceVars, waited>>

\* v7.0: if (feeMechanism !== 'CUSTOM') return 400
CheckMechanism ==
    /\ pc = "mechanism"
    /\ IF req.feeMechanism # "CUSTOM"
       THEN Return(Response(400, FALSE, "NOT_CUSTOM", None))
       ELSE Proceed("mechanism")
    /\ UNCHANGED <<variant, req, env, clock, syncMs, raceVars, waited>>

\* getPiServerTime(): the HEAD request leaves, with its timeout if it has one
ClockRequest ==
    /\ pc = "clock"
    /\ pc' = "clockwait"
    /\ timer' = SyncTimeoutMs(variant)
    /\ UNCHANGED <<variant, req, env, clock, syncMs, inFlight, pending, accepted, now, attempt, account, snapUses,
                   ledgerSeq, currentFee, tx, earlier, answer, observed, lastError,
                   waited, result>>

\* const piServerTimeNow = await getPiServerTime(): the request settles. A time
\* source that never answers settles only a request that carries a timeout.
ClockSync ==
    /\ pc = "clockwait"
    /\ env.timeSource = "silent" => timer > 0
    /\ timer' = 0
    /\ IF env.timeSource = "date"
       THEN /\ clock' = "server"
            /\ UNCHANGED syncMs
            /\ Proceed("clock")
       ELSE IF SyncFallsBack(variant)
       THEN /\ IF env.timeSource = "silent"
               THEN /\ clock' = "timeout"
                    /\ syncMs' = timer
               ELSE /\ clock' = "local"
                    /\ \E lat \in HeadLatencies(variant) : syncMs' = lat
            /\ Proceed("clock")
       ELSE /\ Return(OuterCatch(variant, "CLOCK_SYNC_FAILED", None))
            /\ UNCHANGED <<clock, syncMs>>
    /\ UNCHANGED <<variant, req, env, inFlight, pending, accepted, now, attempt, account, snapUses, ledgerSeq,
                   currentFee, tx, earlier, answer, observed, lastError, waited>>

\* the schedule gate: fail fast (v6.0, v7.0) or suspend (part_002: until
\* raceStartWindowMs before the unlock; v11.0 early call: until earlyCallTime before it)
Gate ==
    /\ pc = "gate"
    /\ LET msUntilUnlock == MsUntilUnlock(variant, req, env, clock, syncMs)
       IN  IF variant \in {"v6", "v7"}
           THEN /\ IF msUntilUnlock > TooEarlyMs(variant)
                   THEN Return(Response(400, FALSE, "TOO_EARLY",
                                        Seconds(RoundSeconds(msUntilUnlock))))
                   ELSE Proceed("gate")
                /\ UNCHANGED <<timer>>
           ELSE LET open == GateOpensAt(variant, req)
                IN  IF msUntilUnlock > open
                    THEN /\ timer' = msUntilUnlock - open
                         /\ pc' = "gatewait"
                         /\ UNCHANGED result
                    ELSE /\ Proceed("gate")
                         /\ UNCHANGED timer
    /\ UNCHANGED <<variant, req, env, clock, syncMs, inFlight, pending, accepted, now, attempt, account, snapUses, ledgerSeq,
                   currentFee, tx, earlier, answer, observed, lastError, waited>>

\* await new Promise(resolve => setTimeout(resolve, waitMs));
GateWait ==
    /\ pc = "gatewait"
    /\ waited' = waited + timer
    /\ timer' = 0
    /\ Proceed("gate")
    /\ UNCHANGED <<variant, req, env, clock, syncMs, inFlight, pending, accepted, now, attempt, account, snapUses, ledgerSeq,
                   currentFee, tx, earlier, answer, observed, lastError>>

\* createKeypairFromMnemonic(senderMnemonic), and the sponsor's: what it throws
\* goes to the outer catch. keyOk is whether the libraries derive the keypairs
\* from what they are given, which in the single shots can be no keyphrase at all
Keys ==
    /\ pc = "keys"
    /\ IF ~req.keyOk
       THEN Return(OuterCatch(variant, "INVALID_KEY", None))
       ELSE Proceed("keys")
    /\ UNCHANGED <<variant, req, env, clock, syncMs, raceVars, waited>>

\* the stage after the account is loaded: the fee, computed in the build step
\* unless the handler awaits server.fetchBaseFee() for it
BuildStage(v, r) == IF FetchesBaseFee(v, r) THEN "fee" ELSE "build"

\* what claimableBalance.amount of the balance read off the ledger may be
BalanceAmounts == {10, 25}

\* v16.0: const response = await server.claimableBalances().balanceId(claimableId).call();
\* no record, or a failed call, goes to the outer catch
FetchBalance ==
    /\ pc = "balance"
    /\ \E lat \in Latencies : now' = Elapse(variant, now, lat)
    /\ \/ /\ \E a \in BalanceAmounts : tx' = [NoTx EXCEPT !.args.amount = a]
          /\ Proceed("balance")
       \/ /\ Return(OuterCatch(variant, "BALANCE_NOT_FOUND", None))
          /\ UNCHANGED tx
       \/ /\ \E e \in LoadErrors : Return(OuterCatch(variant, "FAILED", e))
          /\ UNCHANGED tx
    /\ UNCHANGED <<variant, req, env, clock, syncMs, inFlight, pending, accepted, timer, attempt, account,
                   snapUses, ledgerSeq, currentFee, earlier, answer, observed, lastError,
                   waited>>

\* v7.0 and the single shots: const accountToLoad = await server.loadAccount(...),
\* once; v7.0 then sets currentFee = parseInt(customFee, 10) and takes startTime
PreLoad ==
    /\ pc = "preload"
    /\ \E lat \in Latencies : now' = IF variant = "v7" THEN now ELSE Elapse(variant, now, lat)
    /\ \/ /\ account' = Account(ledgerSeq)
          /\ snapUses' = 0
          /\ currentFee' = IF variant = "v7" THEN req.customFee ELSE currentFee
          /\ pc' = IF variant = "v7" THEN After(variant, "preload")
                   ELSE BuildStage(variant, req)
          /\ UNCHANGED result
       \/ /\ \E e \in LoadErrors : Return(OuterCatch(variant, "FAILED", e))
          /\ UNCHANGED <<account, snapUses, currentFee>>
    /\ UNCHANGED <<variant, req, env, clock, syncMs, inFlight, pending, accepted, timer, attempt, ledgerSeq, tx, earlier,
                   answer, observed, lastError, waited>>

----------------------------------------------------------------------------
(* The race loop *)

\* fall out of the try/catch: bump the fee (v7.0) and start the delay timer
ToDelay(ms) ==
    /\ pc' = "delay"
    /\ timer' = ms
    /\ currentFee' = Bump(variant, currentFee)
    /\ UNCHANGED result

\* catch (error) { ... } of the loop
Caught(e) ==
    /\ observed' = e
    /\ lastError' = IF WallClock(variant) THEN e ELSE lastError
    /\ LET c == Classify(variant, e)
       IN  IF c = "fatal"
           THEN /\ Return(PermanentResponse(variant, e))
                /\ UNCHANGED <<timer, currentFee>>
           ELSE ToDelay(IF c = "ratelimit" THEN RateLimitWaitMs(variant)
                        ELSE ATTEMPT_DELAY_MS(variant))

\* while (Date.now() - startTime < RACE_DURATION_MS) / for (attempt <= MAX_ATTEMPTS)
LoopCheck ==
    /\ pc = "loop"
    /\ IF LoopBoundOpen(variant, now, attempt)
       THEN /\ pc' = IF LoadsInLoop(variant) THEN "load" ELSE BuildStage(variant, req)
            /\ tx' = NoTx
            /\ earlier' = IF tx.built THEN earlier \cup {tx} ELSE earlier
            /\ answer' = None
            /\ UNCHANGED result
       ELSE /\ Return(ExhaustedResponse(variant, lastError))
            /\ UNCHANGED <<tx, earlier, answer>>
    /\ UNCHANGED <<variant, req, env, clock, syncMs, inFlight, pending, accepted, now, timer, attempt, account, snapUses,
                   ledgerSeq, currentFee, observed, lastError, waited>>

\* const accountToLoad = await server.loadAccount(feeSourceAccountPublicKey);
LoadAccount ==
    /\ pc = "load"
    /\ \E lat \in Latencies : now' = Elapse(variant, now, lat)
    /\ \/ /\ account' = Account(ledgerSeq)
          /\ snapUses' = 0
          /\ pc' = BuildStage(variant, req)
          /\ UNCHANGED <<timer, currentFee, observed, lastError, result>>
       \/ /\ \E e \in LoadErrors : Caught(e)
          /\ UNCHANGED <<account, snapUses>>
    /\ UNCHANGED <<variant, req, env, clock, syncMs, inFlight, pending, accepted, attempt, ledgerSeq, tx, earlier, answer, waited>>

\* const baseFee = await server.fetchBaseFee(); a rejection goes to the catch
FetchBaseFee ==
    /\ pc = "fee"
    /\ \E lat \in Latencies : now' = Elapse(variant, now, lat)
    /\ \/ /\ \E baseFee \in BaseFees : tx' = [tx EXCEPT !.base = baseFee]
          /\ pc' = "build"
          /\ UNCHANGED <<timer, currentFee, observed, lastError, result>>
       \/ /\ \E e \in LoadErrors : Caught(e)
          /\ tx' = NoTx
    /\ UNCHANGED <<variant, req, env, clock, syncMs, inFlight, pending, accepted, attempt, account, snapUses,
                   ledgerSeq, earlier, answer, waited>>

\* the amount the payments carry: v16.0 takes the balance's, v15.1 pays nothing
AmountToTransfer(v, r, found) ==
    CASE v = "v16"  -> found
      [] v = "v151" -> 0
      [] OTHER      -> r.amount

\* feePerOperation, TransactionBuilder, addOperation, (setTimeout,) build, sign,
\* and the call of server.submitTransaction, which v7.0 does not await
BuildAndSubmit ==
    /\ pc = "build"
    /\ \/ \* amount.toString(), addOperation or setTimeout throws, or a const is
          \* assigned again
          /\ \/ AmountThrows(variant, req)
             \/ ConstReassigned(variant, req)
             \/ TimeoutRefused(variant, req)
             \/ LibraryDecides(variant, req)
          /\ Caught(Exception)
          /\ tx' = NoTx
          /\ UNCHANGED <<account, snapUses, inFlight, pending>>
       \/ /\ ~AmountThrows(variant, req)
          /\ ~ConstReassigned(variant, req)
          /\ ~TimeoutRefused(variant, req)
          /\ LET t == [built |-> TRUE,
                       seen  |-> account.sequence,
                       seq   |-> BuildSeq(account.sequence),
                       fee   |-> FeePerOperation(variant, req, currentFee, tx.base),
                       base  |-> tx.base,
                       ops   |-> Operations(variant, req),
                       args  |-> [OperationArgs(variant, req) EXCEPT
                                    !.amount = AmountToTransfer(variant, req, tx.args.amount)],
                       signers |-> Signers(variant, req),
                       source  |-> FeeSource(variant, req),
                       minTime |-> MinTime(variant, req),
                       maxTime |-> MaxTime(variant, req, env, now)]
             IN  /\ tx' = t
                 /\ account' = Account(t.seq)
                 /\ snapUses' = snapUses + 1
                 /\ inFlight' = inFlight + 1
                 /\ IF Awaits(variant)
                    THEN /\ pc' = "await"
                         /\ UNCHANGED <<pending, timer, currentFee, result>>
                    ELSE /\ pending' = Append(pending, [seq |-> t.seq, sent |-> now])
                         /\ ToDelay(ATTEMPT_DELAY_MS(variant))
                 /\ UNCHANGED <<observed, lastError>>
    /\ UNCHANGED <<variant, req, env, clock, syncMs, now, attempt, earlier, answer, ledgerSeq,
                   accepted, waited>>

\* const result = await server.submitTransaction(transaction); and what follows it
SubmitReturns ==
    /\ pc = "await"
    /\ \E lat \in Latencies : now' = Elapse(variant, now, lat)
    /\ \E a \in LedgerAnswers(tx, ledgerSeq) :
         /\ answer' = a
         /\ accepted' = IF a = Hash THEN accepted + 1 ELSE accepted
         /\ inFlight' = inFlight - 1
         /\ ledgerSeq' = IF a = Hash THEN tx.seq ELSE ledgerSeq
         /\ IF a.kind \in {"hash", "nohash"}
            THEN /\ IF ReturnsSuccess(variant, a)
                    THEN /\ Return(Response(200, TRUE, "SUCCESS", a))
                         /\ UNCHANGED <<timer, currentFee>>
                    ELSE ToDelay(ATTEMPT_DELAY_MS(variant))
                 /\ UNCHANGED <<observed, lastError>>
            ELSE Caught(a)
    /\ UNCHANGED <<variant, req, env, clock, syncMs, pending, attempt, account, snapUses, tx, earlier, waited>>

\* v7.0: the promise of one of the server.submitTransaction calls nobody awaits
\* settles, while the handler sleeps or after it has returned; nothing orders
\* the answers. Nothing handles a rejection: node ends the process on an
\* unhandled rejection, and the promises of the other submissions end with the
\* process; while the handler sleeps the invocation then returns no response,
\* after it has returned the response stands
SubmissionSettles ==
    /\ pc \in {"delay", "done"}
    /\ \E i \in 1..Len(pending) :
         \E a \in LedgerAnswers(pending[i], ledgerSeq) :
              /\ answer' = a
              /\ accepted' = IF a = Hash THEN accepted + 1 ELSE accepted
              /\ ledgerSeq' = IF a = Hash THEN pending[i].seq ELSE ledgerSeq
              /\ IF a.kind \notin {"hash", "nohash"}
                 THEN /\ pc' = IF pc = "delay" THEN "crashed" ELSE pc
                      /\ pending' = <<>>
                      /\ inFlight' = 0
                 ELSE /\ pc' = pc
                      /\ pending' = Remove(pending, i)
                      /\ inFlight' = inFlight - 1
    /\ UNCHANGED <<variant, req, env, clock, syncMs, now, timer, attempt, account, snapUses, currentFee,
                   tx, earlier, observed, lastError, waited, result>>

\* await new Promise(resolve => setTimeout(resolve, ...)); then the next
\* iteration. No answer takes longer than MaxLatency: one due before the timer
\* fires has settled
Delay ==
    /\ pc = "delay"
    /\ pending # <<>> => Head(pending).sent + MaxLatency >= now + timer
    /\ now' = Elapse(variant, now, timer)
    /\ timer' = 0
    /\ attempt' = NextAttempt(attempt)
    /\ pc' = "loop"
    /\ UNCHANGED <<variant, req, env, clock, syncMs, inFlight, pending, accepted, account, snapUses, ledgerSeq, currentFee, tx,
                   earlier, answer, observed, lastError, waited, result>>

\* another party's transaction consumes a sequence number of the fee-source account
OtherWriter ==
    /\ pc \in {"balance", "preload", "load", "fee", "await", "delay"}
    /\ ledgerSeq < MaxSeq
    /\ ledgerSeq' = ledgerSeq + 1
    /\ UNCHANGED <<variant, req, env, clock, syncMs, inFlight, pending, accepted, pc, now, timer, attempt, account, snapUses,
                   currentFee, tx, earlier, answer, observed, lastError, waited,
                   result>>

\* exports.handler of a racer, and the promises it leaves behind
Handler ==
    \/ CheckMethod
    \/ CheckFields
    \/ CheckMechanism
    \/ ClockRequest
    \/ ClockSync
    \/ Gate
    \/ GateWait
    \/ Keys
    \/ PreLoad
    \/ LoopCheck
    \/ LoadAccount
    \/ FetchBaseFee
    \/ BuildAndSubmit
    \/ SubmitReturns
    \/ SubmissionSettles
    \/ Delay

Next ==
    \/ Handler
    \/ OtherWriter

Spec == Init /\ [][Next]_vars

\* every remote call returns and every timer fires: the handler always takes its next step
FairSpec == Init /\ [][Next]_vars /\ WF_vars(Handler)

\* one attempt of any exports.handler of the repository: every step up to the
\* answer to its first submission, without the delay that leads into a second
\* iteration; for a handler without a loop that is all of it
Attempt ==
    \/ CheckMethod
    \/ CheckFields
    \/ CheckMechanism
    \/ ClockRequest
    \/ ClockSync
    \/ Gate
    \/ GateWait
    \/ Keys
    \/ FetchBalance
    \/ PreLoad
    \/ LoopCheck
    \/ LoadAccount
    \/ FetchBaseFee
    \/ BuildAndSubmit
    \/ SubmitReturns
    \/ SubmissionSettles

AttemptSpec == AttemptInit /\ [][Attempt]_vars

\* part_001 alone, with and without an unlockTime, through all of its race
PredictiveInit ==
    /\ variant = "pred"
    /\ req \in GoodRequests \cup { Without(r, "unlockTime") : r \in GoodRequests }
    /\ env = Quiet
    /\ Entered

PredictiveSpec == PredictiveInit /\ [][Next]_vars

----------------------------------------------------------------------------
(* The terminal results of section 3, read off the response *)

Succeeded(r) == r.kind = "SUCCESS"
Aborted(r)   == r.kind = "PERMANENT"
Exhausted(r) == r.kind \in {"DEFEAT", "RACE_LOST", "ALL_ATTEMPTS_FAILED"}
RaceFinished(r) == r.kind = "RACE_FINISHED"

Retriable(a) == a \in {BadSeq, TooEarlyCode}
FatalRejection(a) == a.kind = "ledger" /\ ~Retriable(a)

----------------------------------------------------------------------------
(* Claims *)

\* C1: in the awaited racers, once a submission returns a confirmed hash the
\* handler has returned the success result: it is at its end, where no account
\* load, build or submission follows.
C1_HashEndsRace ==
    (variant # "v7" /\ answer = Hash) => (pc = "done" /\ Succeeded(result))

C1_Witness ==
    /\ variant = "v9"
    /\ attempt = 3
    /\ answer = Hash
    /\ pc = "done"
    /\ Succeeded(result)

\* C2: in an awaited racer a ledger rejection whose transaction code is neither
\* tx_bad_seq nor tx_too_early ends the loop at once in ABORTED.
C2_FatalRejectionAborts ==
    (variant # "v7" /\ FatalRejection(answer)) => (pc = "done" /\ Aborted(result))

\* C3: a rejection with tx_bad_seq or tx_too_early never ends the race in
\* ABORTED and never stops it: the handler goes on to the delay and the next
\* loop check, a further attempt follows while the loop bound is open, and the
\* handler has returned only if the loop bound was reached.
C3_RetriableContinues ==
    /\ [](Retriable(answer) =>
            /\ ~Aborted(result)
            /\ \/ pc \in {"delay", "loop"} /\ result = NoResult
               \/ /\ pc = "done"
                  /\ Exhausted(result) \/ RaceFinished(result)
                  /\ ~LoopBoundOpen(variant, now, attempt))
    /\ [][(Retriable(answer) /\ pc = "delay") => pc' \in {"delay", "loop"}]_vars
    /\ [][(Retriable(answer) /\ pc = "loop" /\ LoopBoundOpen(variant, now, attempt))
            => pc' \in {"load", BuildStage(variant, req)}]_vars

\* C4: a transport-level failure without a structured ledger response (timeout,
\* HTTP 429) never ends the race in ABORTED.
C4_TransportIsRetriable ==
    (variant # "v7" /\ observed.kind = "transport") => ~Aborted(result)

\* C5: in every racer, the fire-and-forget one among them, every attempt is
\* built from an account loaded after the previous attempt: no account snapshot
\* is used for two attempts.
C5_NoSnapshotReuse ==
    snapUses <= 1

\* C6 as claimed: an attempt built after the sequence number the racer sees has
\* risen above the one an earlier attempt was built from carries a sequence
\* number that no earlier attempt of the race carried.
C6_FreshSequenceNotReused ==
    (tx.built /\ \E e \in earlier : e.seen < tx.seen) =>
        \A e \in earlier : e.seq # tx.seq

\* C6 as amended: the sequence number a racer builds from never goes back within
\* a race, and in an awaited racer it is one the ledger has reached, because the
\* account is read again in every iteration; an attempt carries a number that
\* every attempt built from a lower sequence did not carry, and a number no
\* earlier attempt carried once the sequence seen has risen above that of all
\* of them; attempts built from one and the same sequence, the ledger not having
\* moved between them, carry one and the same number.
C6_RisenSequenceNotReused ==
    tx.built =>
        /\ \A e \in earlier : e.seen <= tx.seen
        /\ variant # "v7" => tx.seen <= ledgerSeq
        /\ \A e \in earlier : e.seen < tx.seen => e.seq # tx.seq
        /\ (\A e \in earlier : e.seen < tx.seen) => \A e \in earlier : e.seq # tx.seq
        /\ \A e \in earlier : e.seen = tx.seen => e.seq = tx.seq

C6_Witness ==
    /\ variant = "v9"
    /\ attempt = 3
    /\ tx.built
    /\ \E e \in earlier : e.seen < tx.seen
    /\ \E e \in earlier : e.seen = tx.seen /\ e.seq = tx.seq

\* C7: when the loop bound is reached the racer returns the Exhausted result and
\* that result carries the last error observed during the race.
C7_ExhaustedCarriesLastError ==
    (pc = "done" /\ Exhausted(result)) => result.detail = observed

\* C8: every racer, v7.0 among them, eventually returns a response, returns
\* exactly one, and nothing of the race changes after it.
C8_OneTerminalResult ==
    /\ <>(pc = "done" /\ result # NoResult)
    /\ [][result # NoResult =>
            /\ result' = result
            /\ pc' = "done"
            /\ attempt' = attempt
            /\ tx' = tx
            /\ account' = account]_vars
    /\ [](pc = "done" <=> result # NoResult)

\* C9: once the v7.0 racer has entered its loop, the only response it returns is
\* the fixed "race finished, check the wallet" one; it never returns the success
\* result, whatever the ledger answered.
C9_FireAndForgetNeverSucceeds ==
    (variant = "v7" /\ account.loaded) =>
        /\ ~Succeeded(result)
        /\ pc = "done" => result = Response(200, TRUE, "RACE_FINISHED", None)
        /\ pc # "done" => result = NoResult

C9_Witness ==
    /\ variant = "v7"
    /\ pc = "done"
    /\ answer = Hash
    /\ RaceFinished(result)

\* C10: in the v7.0 racer the per-operation fee of an attempt is never below the
\* fee of an earlier attempt of the same race.
C10_BumpedFeeNonDecreasing ==
    (variant = "v7" /\ tx.built) => \A e \in earlier : e.fee <= tx.fee

C10_Witness ==
    /\ variant = "v7"
    /\ tx.built
    /\ \E e \in earlier : e.fee < tx.fee

\* C11: CUSTOM_TOTAL. Where a custom total c is divided over the operations of
\* the transaction, there are n = 2 x recordsPerAttempt of them and the
\* per-operation fee f is ceil(c / n): c <= f * n <= c + n - 1.
C11_CustomTotalFee ==
    (variant \in (Variants \cup {"https", "shot"}) \ {"v7"} /\ tx.built
                                                        /\ UsesCustomFee(req)) =>
        LET n == 2 * req.records
            c == req.customFee
        IN  /\ Len(tx.ops) = n
            /\ tx.fee = Ceil(c, n)
            /\ c <= tx.fee * n
            /\ tx.fee * n <= c + n - 1

\* C12: the single shot of part_003, asked to revoke the sponsorship and given a
\* custom fee, gets past its fee computation with a transaction of
\* 2 x recordsPerAttempt + 1 operations at ceil(customFee / that many) each,
\* which it submits.
C12_RevocationCustomFee ==
    (/\ variant = "shot"
     /\ req.removeSponsorship
     /\ UsesCustomFee(req)
     /\ ~req.malformed
     /\ account.loaded
     /\ pc # "build") =>
        LET n == 2 * req.records + 1
        IN  /\ tx.built
            /\ Len(tx.ops) = n
            /\ req.customFee <= tx.fee * n
            /\ tx.fee * n <= req.customFee + n - 1
            /\ pc = "done" => answer # None

\* C13: in every racer, a transaction built under AUTOMATIC carries the network
\* base fee per operation, and one built under SPEED_HIGH ten times it.
C13_MechanismFee ==
    (variant \in Variants \cup {"https"} /\ tx.built) =>
        /\ req.feeMechanism = "AUTOMATIC" => (tx.base > 0 /\ tx.fee = tx.base)
        /\ req.feeMechanism = "SPEED_HIGH" => (tx.base > 0 /\ tx.fee = tx.base * 10)

\* C14: with the CUSTOM mechanism and no positive custom fee, a handler that
\* reads the mechanism builds and submits nothing, and what it returns is a
\* configuration error.
C14_CustomNeedsAmount ==
    (variant \in Variants \cup {"https", "shot"} /\ req.feeMechanism = "CUSTOM"
                                    /\ req.customFee <= 0) =>
        /\ ~tx.built
        /\ answer = None
        /\ ~Succeeded(result) /\ ~RaceFinished(result)

\* C15: every racer's transaction holds 2 x recordsPerAttempt operations, claim
\* and payment in turn, a claim first.
C15_PairsPerRecord ==
    (variant \in Variants \cup {"https"} /\ tx.built) =>
        /\ Len(tx.ops) = 2 * req.records
        /\ \A i \in 1..Len(tx.ops) :
             tx.ops[i] = IF i % 2 = 1 THEN "claim" ELSE "payment"

\* the signatures of a transaction, as a set
SignedBy(t) == { t.signers[i] : i \in 1..Len(t.signers) }

\* C16 as claimed: the sender signs every transaction, and the sponsor signs
\* exactly when feeType is SPONSOR_PAYS and a sponsor keyphrase is given, which
\* is exactly when the sponsor's account is the fee and sequence source.
C16_SponsorSignsIffPays ==
    tx.built =>
        /\ tx.signers[1] = "sender"
        /\ "sponsor" \in SignedBy(tx) <=> (req.feeType = "SPONSOR_PAYS" /\ req.sponsor)
        /\ "sponsor" \in SignedBy(tx) <=> tx.source = "sponsor"

\* C16 as amended: the sender signs every transaction first, and the sponsor
\* signs exactly when its account is the fee and sequence source, which is when
\* a sponsor keypair was made: from a given sponsor keyphrase under feeType
\* SPONSOR_PAYS in the handlers that read feeType, from any given sponsor
\* keyphrase in v15.0, always in v15.1 and v16.0, which ask for one, and never
\* in the v11.0 Ultimate racer.
C16_SponsorSignsIffKeypair ==
    tx.built =>
        /\ tx.signers[1] = "sender"
        /\ SignedBy(tx) \subseteq {"sender", "sponsor"}
        /\ "sponsor" \in SignedBy(tx) <=> tx.source = "sponsor"
        /\ tx.source \in {"sender", "sponsor"}
        /\ tx.source = "sponsor" <=>
             CASE variant = "v11u" -> FALSE
               [] variant = "v15"  -> req.sponsor
               [] variant \in {"v151", "v16"} -> TRUE
               [] OTHER            -> req.feeType = "SPONSOR_PAYS" /\ req.sponsor

C16_Witness ==
    /\ variant = "sync"
    /\ tx.built
    /\ req.feeType = "SPONSOR_PAYS"
    /\ req.sponsor
    /\ tx.signers = <<"sender", "sponsor">>
    /\ tx.source = "sponsor"

C18_SyncFailureFallsBack ==
    (HasClockSync(variant) /\ env.timeSource \in {"nodate", "error"}) =>
        /\ result.kind # "CLOCK_SYNC_FAILED"
        /\ pc = "gate" => clock = "local"

\* C19: while the handler waits for a time source that never answers, a timeout
\* of at most 3 s is pending on the request and the handler has a next step.
C19_SilentSourceAbandoned ==
    (pc = "clockwait" /\ env.timeSource = "silent") =>
        /\ timer \in 1..3000
        /\ ENABLED ClockSync

\* C20: in the fail-fast racers (v6.0, v7.0) TOO_EARLY is returned exactly when
\* msUntilUnlock > 7000, with msUntilUnlock / 1000 rounded to the nearest second,
\* and then no account was loaded and no transaction built or submitted.
C20_FailFastGate ==
    variant \in {"v6", "v7"} =>
        LET ms == MsUntilUnlock(variant, req, env, clock, syncMs)
        IN  /\ result.kind = "TOO_EARLY" =>
                /\ pc = "done"
                /\ clock # "none"
                /\ ms > 7000
                /\ result.detail.secondsRemaining * 1000 - 500 <= ms
                /\ ms < result.detail.secondsRemaining * 1000 + 500
            /\ (clock # "none" /\ ms > 7000) =>
                /\ pc = "gate" \/ (pc = "done" /\ result.kind = "TOO_EARLY")
                /\ ~account.loaded
                /\ ~tx.built
                /\ answer = None
            /\ (clock # "none" /\ ms <= 7000) => result.kind # "TOO_EARLY"

C20_Witness ==
    /\ variant = "v6"
    /\ pc = "done"
    /\ clock = "server"
    /\ MsUntilUnlock(variant, req, env, clock, syncMs) = 8600
    /\ result = Response(400, FALSE, "TOO_EARLY", Seconds(9))

----------------------------------------------------------------------------
(* The suspending gates *)

\* the gate is behind the handler: the loop runs, or it ended the invocation
Racing ==
    \/ pc \in {"loop", "load", "fee", "build", "await", "delay"}
    \/ pc = "done" /\ (account.loaded \/ observed # None \/ Exhausted(result))

\* C21: in the handlers with raceStartWindowMs (part_002 and its https twin),
\* once the loop runs the handler has been suspended for exactly
\* msUntilUnlock - 3000 ms when msUntilUnlock > 3000, and not at all otherwise;
\* until the loop runs nothing was loaded, built or submitted.
C21_SuspendingGate ==
    variant \in {"sync", "https"} =>
        LET ms == MsUntilUnlock(variant, req, env, clock, syncMs)
        IN  /\ Racing => waited = IF ms > 3000 THEN ms - 3000 ELSE 0
            /\ ~Racing => (waited = 0 /\ ~account.loaded /\ ~tx.built)

C21_Witness ==
    /\ variant = "sync"
    /\ MsUntilUnlock(variant, req, env, clock, syncMs) = 10000
    /\ waited = 7000
    /\ pc = "await"

\* C22: in the v11.0 early-call racer, with
\* waitMs = (targetUnlock - earlyCallTime) - Date.now(), once the loop runs the
\* handler has been suspended for waitMs when waitMs > 0 and not at all when
\* waitMs <= 0; until then nothing was loaded, built or submitted.
C22_EarlyCallGate ==
    variant = "v11u" =>
        LET waitMs == (req.unlockTime - req.earlyCallTime) - env.localNow
        IN  /\ Racing => waited = IF waitMs > 0 THEN waitMs ELSE 0
            /\ ~Racing => (waited = 0 /\ ~account.loaded /\ ~tx.built)

C22_Witness ==
    /\ variant = "v11u"
    /\ req.earlyCallTime = 2000
    /\ req.unlockTime - env.localNow = 8000
    /\ waited = 6000
    /\ pc = "await"

----------------------------------------------------------------------------
(* The race against a scripted ledger *)

\* a quiet environment whose ledger rejects the first n submissions with
\* tx_bad_seq and accepts the next one
ScriptedLedger(n) ==
    [timeSource |-> "date", localNow |-> Quiet.localNow, serverAhead |-> 0,
     staleFor |-> n]

\* the scripted ledger's answer to the submission of iteration k
ScriptedAnswer(n, k) == IF k <= n THEN BadSeq ELSE Hash

ScriptedInit ==
    /\ variant \in {"sync", "https"}
    /\ req \in GoodRequests
    /\ env \in { ScriptedLedger(n) : n \in 0..MaxStale }
    /\ Entered

\* the handler's steps, with remote calls that answer at once, loads that
\* succeed, and submissions settled by the script
ScriptedRace ==
    \/ CheckMethod
    \/ CheckFields
    \/ Keys
    \/ ClockRequest
    \/ ClockSync
    \/ Gate
    \/ GateWait
    \/ LoopCheck
    \/ LoadAccount /\ now' = now /\ pc' \in {"fee", "build"}
    \/ FetchBaseFee /\ now' = now /\ pc' = "build"
    \/ BuildAndSubmit /\ tx'.built
    \/ SubmitReturns /\ now' = now /\ answer' = ScriptedAnswer(env.staleFor, attempt)
    \/ Delay

ScriptedSpec == ScriptedInit /\ [][ScriptedRace]_vars

\* C23: the wall-clock racer of part_002 (6000 ms, 250 ms between attempts,
\* remote calls that answer at once) against a ledger that rejects the first n
\* submissions with tx_bad_seq and accepts the next: every iteration that went
\* into the delay had its submission rejected, no iteration after n + 1 submits,
\* and the handler ends only with the success response, in iteration n + 1,
\* carrying the hash, n * 250 ms or more after the race started.
C23_SucceedsAfterStale ==
    /\ pc = "delay" => (tx.built /\ answer = BadSeq /\ attempt <= env.staleFor)
    /\ tx.built => attempt <= env.staleFor + 1
    /\ pc = "done" =>
        /\ Succeeded(result)
        /\ result.statusCode = 200
        /\ result.detail = Hash
        /\ tx.built
        /\ attempt = env.staleFor + 1
        /\ now >= env.staleFor * 250

C23_Witness ==
    /\ variant = "sync"
    /\ env.staleFor = 5
    /\ pc = "done"
    /\ Succeeded(result)
    /\ attempt = 6
    /\ now = 1250

----------------------------------------------------------------------------
(* Faults of the request and of the handler *)

\* C24: in v6.0 and v7.0, once the loop's catch has bound an exception thrown
\* while a transaction was assembled, the handler has ended with the generic
\* 500 response of its outer catch.
C24_ExceptionSurfaces ==
    (variant \in {"v6", "v7"} /\ observed = Exception) =>
        /\ pc = "done"
        /\ result.statusCode = 500
        /\ result.kind = "CRITICAL"

\* C25: in v6.0 a request without an amount (or without a recipient) ends with
\* INVALID_AMOUNT / MISSING_RECIPIENT, in the first iteration, before any
\* account is loaded.
C25_RejectedBeforeNetwork ==
    (variant = "v6" /\ req.malformed /\ req.method = "POST" /\ FieldsPresent(variant, req) /\ req.keyOk) =>
        /\ ~account.loaded
        /\ attempt = 1
        /\ pc = "done" => result.kind \in {"MISSING_RECIPIENT", "INVALID_AMOUNT"}

\* C26: in v7.0 a keyphrase no keypair can be derived from ends the handler
\* with a response of its own kind, not the generic one of the outer catch, and
\* no account was loaded and no transaction built.
C26_InvalidSecretDistinct ==
    (variant = "v7" /\ ~req.keyOk /\ pc = "done" /\ req.method = "POST" /\ FieldsPresent(variant, req)) =>
        /\ result.kind = "INVALID_KEY"
        /\ ~account.loaded
        /\ ~tx.built

----------------------------------------------------------------------------
(* The bound of the wall-clock race *)

\* C27 as stated: a wall-clock racer issues no submission later than 6000 ms
\* after startTime (a submission is issued at the instant the handler begins to
\* await it or, in v7.0, goes on to the delay).
C27_SubmissionsInsideDuration ==
    /\ (WallClock(variant) /\ pc = "await") => now <= 6000
    /\ (variant = "v7" /\ pc = "delay" /\ tx.built) => now <= 6000

\* C27, amended: a wall-clock racer starts no iteration 6000 ms or later after
\* startTime; v7.0, which awaits nothing inside an iteration, also issues every
\* submission before that, while an awaited racer issues the submission of an
\* iteration after its loadAccount and, where it asks for the base fee, its
\* fetchBaseFee have answered, less than 6000 ms plus the time of those calls
\* after startTime.
C27_AttemptsStartInsideDuration ==
    WallClock(variant) =>
        /\ pc = "load" => now < 6000
        /\ (variant = "v7" /\ pc \in {"build", "delay"}) => now < 6000
        /\ pc = "fee" => now < 6000 + MaxLatency
        /\ pc \in {"build", "await"} =>
              now < 6000 + (IF FetchesBaseFee(variant, req) THEN 2 ELSE 1) * MaxLatency

C27_Witness ==
    /\ variant = "sync"
    /\ pc = "await"
    /\ tx.built
    /\ tx.base > 0
    /\ now > 6000 + MaxLatency

----------------------------------------------------------------------------
(* One submission at a time *)

\* C28: in the awaited racers at most one submission is outstanding, and an
\* iteration loads the account and builds its transaction only while none is:
\* the outcome of the submission before it is known.
C28_OneSubmissionOutstanding ==
    variant # "v7" =>
        /\ inFlight \in {0, 1}
        /\ pc \in {"loop", "load", "fee", "build", "delay"} => inFlight = 0
        /\ inFlight = 1 <=> pc = "await"

C28_Witness ==
    /\ variant = "v9"
    /\ attempt = 2
    /\ pc = "await"
    /\ inFlight = 1
    /\ earlier # {}

----------------------------------------------------------------------------
(* The response of each outcome *)

\* C29: in part_002, v6.0 and v9.0 a handler that has ended answers success
\* with 200 and the hash, TOO_EARLY and a lost race with 400, and a fatal ledger
\* error or an unexpected exception with 500.
C29_OutcomeMapping ==
    (variant \in {"sync", "v6", "v9"} /\ pc = "done") =>
        /\ Succeeded(result) => (result.statusCode = 200 /\ result.detail = Hash)
        /\ (result.kind = "TOO_EARLY" \/ Exhausted(result)) => result.statusCode = 400
        /\ (Aborted(result) \/ result.kind = "CRITICAL") => result.statusCode = 500

----------------------------------------------------------------------------
(* What the attempts of one invocation share *)

\* a transaction without its sequence numbers and its fee
Unsequenced(t) == [t EXCEPT !.seen = 0, !.seq = 0, !.fee = 0, !.base = 0]

\* C30 as claimed: every transaction an invocation has built carries the
\* request's claim id, recipient and amount, and is, apart from its sequence
\* number and its fee, the transaction of the current attempt: same operations,
\* signers, fee-source account and time bounds; and outside the fee bumping of
\* v7.0 the fee is the same too.
C30_RaceConfigFixed ==
    tx.built =>
        \A e \in earlier \cup {tx} :
            /\ e.args = [balanceId |-> req.claimableId,
                         destination |-> req.receiverAddress,
                         amount |-> req.amount]
            /\ Unsequenced(e) = Unsequenced(tx)
            /\ variant # "v7" => e.fee = tx.fee

\* C30 as amended: claim id, recipient, amount, operations, signers, fee-source
\* account and time bounds are those of the request in every attempt. Besides
\* the sequence number the fee differs: under the fee bumping of v7.0, and in an
\* awaited racer whose fee is not a custom total, where every attempt fetches
\* the network base fee anew and takes its fee from that answer. With a custom
\* total and no fee bumping the fee is the same in all attempts, as it is
\* between attempts that were answered the same base fee.
C30_RaceConfigFixedButFee ==
    tx.built =>
        \A e \in earlier \cup {tx} :
            /\ e.args = [balanceId |-> req.claimableId,
                         destination |-> req.receiverAddress,
                         amount |-> req.amount]
            /\ Unsequenced(e) = Unsequenced(tx)
            /\ variant # "v7" =>
                 /\ e.fee = FeePerOperation(variant, req, currentFee, e.base)
                 /\ UsesCustomFee(req) => e.fee = tx.fee
                 /\ e.base = tx.base => e.fee = tx.fee
                 /\ ~UsesCustomFee(req) => e.base \in BaseFees

C30_Witness ==
    /\ variant = "sync"
    /\ tx.built
    /\ ~UsesCustomFee(req)
    /\ \E e \in earlier : e.base < tx.base /\ e.fee < tx.fee /\ e.seq = tx.seq

----------------------------------------------------------------------------
(* The fire-and-forget racer *)

\* C31: in v7.0 the ledger's answers do not steer the run. The step that
\* submits leaves the same handler state whatever will be answered; the step in
\* which an answer arrives changes nothing the handler reads or does next
\* (position, timers, attempt, fee, account, transaction, response); and the
\* race ends only at the 6000 ms bound, with the one fixed response.
C31_AnswersDoNotSteer ==
    /\ [](variant = "v7" /\ account.loaded =>
            /\ pc \in {"loop", "build", "delay", "done"}
            /\ pc = "done" => (now >= 6000 /\ result = Response(200, TRUE, "RACE_FINISHED", None)))
    /\ [][(variant = "v7" /\ inFlight' < inFlight) =>
            ( /\ pc' = pc
              /\ timer' = timer
              /\ now' = now
              /\ attempt' = attempt
              /\ currentFee' = currentFee
              /\ account' = account
              /\ tx' = tx
              /\ observed' = observed
              /\ lastError' = lastError
              /\ result' = result )]_vars
    /\ [][(variant = "v7" /\ pc = "build" /\ ~req.malformed) =>
            ( /\ pc' = "delay"
              /\ timer' = 400
              /\ now' = now
              /\ attempt' = attempt
              /\ result' = result
              /\ observed' = observed
              /\ lastError' = lastError
              /\ earlier' = earlier
              /\ currentFee' = currentFee + 10000
              /\ account' = Account(account.sequence + 1)
              /\ tx'.built
              /\ tx'.seq = account.sequence + 1
              /\ tx'.fee = Ceil(currentFee, 2 * req.records) )]_vars

\* v7.0, and beside it the v9.0 racer that loads the account in its loop, on a
\* fee-source account nobody else writes to once the handler has loaded it
SoleWriterInit ==
    /\ variant \in {"v7", "v9"}
    /\ \E i \in Inputs : req = i[1] /\ env = i[2]
    /\ Entered

SoleWriterRace ==
    \/ CheckMethod
    \/ CheckFields
    \/ CheckMechanism
    \/ ClockRequest
    \/ ClockSync
    \/ Gate
    \/ Keys
    \/ OtherWriter /\ pc = "preload"
    \/ PreLoad
    \/ LoopCheck
    \/ LoadAccount
    \/ FetchBaseFee
    \/ BuildAndSubmit
    \/ SubmitReturns
    \/ SubmissionSettles
    \/ Delay

SoleWriterSpec == SoleWriterInit /\ [][SoleWriterRace]_vars

\* C32: v7.0 loads the account once, with sequence s0, and its k-th built
\* transaction carries s0 + k; while nobody else writes to the account, the
\* ledger stands at s0 plus the number of transactions it accepted, and it
\* accepts a transaction only when that transaction carries the number after
\* the last accepted one: attempt k is accepted when exactly the attempts
\* 1..k-1 have been, in whatever order the answers arrive.
C32_SequenceChain ==
    /\ []((variant = "v7" /\ account.loaded) =>
            LET s0 == account.sequence - snapUses
            IN  /\ s0 \in 0..MaxSeq
                /\ tx.built =>
                    /\ tx.seq = s0 + snapUses
                    /\ { e.seq : e \in earlier \cup {tx} } = (s0 + 1)..(s0 + snapUses)
                    /\ pc = "delay" => snapUses = attempt
                /\ accepted <= snapUses
                /\ ledgerSeq = s0 + accepted
                /\ \A i \in 1..Len(pending) :
                     pending[i].seq \in (s0 + 1)..(s0 + snapUses))
    /\ [][(variant = "v7" /\ accepted' # accepted) =>
            \E i \in 1..Len(pending) :
                /\ pending[i].seq = (account.sequence - snapUses) + accepted + 1
                /\ pending' = Remove(pending, i)
                /\ accepted' = accepted + 1
                /\ ledgerSeq' = pending[i].seq]_vars

C32_Witness ==
    /\ variant = "v7"
    /\ account.sequence - snapUses = 1
    /\ tx.built
    /\ tx.seq = 4
    /\ answer = Hash
    /\ accepted = 1
    /\ Len(pending) = 1
    /\ pending[1].seq = 4

\* C33: the k-th iteration of the v7.0 loop works from the total
\* customFee + (k - 1) x 10000 and gives its transaction the per-operation fee
\* ceil of that total over 2 x recordsPerAttempt; the total has grown by 10000
\* when the iteration reaches its delay, whether it built a transaction or threw.
C33_BumpedFeeFormula ==
    (variant = "v7" /\ account.loaded /\ pc # "done") =>
        LET basis == req.customFee + (attempt - 1) * 10000
        IN  /\ pc \in {"loop", "build"} => currentFee = basis
            /\ pc = "delay" =>
                /\ currentFee = basis + 10000
                /\ tx.built \/ observed = Exception
                /\ tx.built =>
                    /\ tx.fee = (basis + 2 * req.records - 1) \div (2 * req.records)
                    /\ tx.fee * 2 * req.records >= basis
                    /\ (tx.fee - 1) * 2 * req.records < basis

C33_Witness ==
    /\ variant = "v7"
    /\ pc = "delay"
    /\ attempt = 3
    /\ req.records = 2
    /\ tx.built
    /\ tx.fee = 11251
    /\ currentFee = 55001

\* C34: a v7.0 race enters at most 15 iterations, so no attempt works from a
\* total above customFee + 14 x 10000.
C34_FeeBasisBounded ==
    (variant = "v7" /\ account.loaded) =>
        /\ attempt <= 16
        /\ pc \in {"build", "delay"} =>
            /\ attempt <= 15
            /\ now = (attempt - 1) * 400
        /\ pc = "build" => currentFee <= req.customFee + 14 * 10000
        /\ \A e \in earlier \cup {tx} :
             e.built => e.fee * 2 * req.records < req.customFee + 14 * 10000 + 2 * req.records

C34_Witness ==
    /\ variant = "v7"
    /\ pc = "build"
    /\ attempt = 15
    /\ currentFee = req.customFee + 140000
    /\ now = 5600

----------------------------------------------------------------------------
(* The attempt-count racers *)

\* C35: v9.0 enters at most 15 iterations and v11.0 at most 20, each with at
\* most one submission; every iteration that does not return goes through one
\* delay, of 3000 ms when v9.0 caught HTTP 429 in it and of 1500 ms otherwise,
\* and the delay's end counts one attempt; the handler returns the
\* all-attempts-failed result exactly when the counter has passed the last
\* attempt.
C35_AttemptCountBound ==
    /\ [](variant \in {"v9", "v11"} =>
            LET max == IF variant = "v9" THEN 15 ELSE 20
            IN  /\ attempt <= max + 1
                /\ pc \in {"load", "fee", "build", "await", "delay"} => attempt <= max
                /\ inFlight <= 1
                /\ result.kind = "ALL_ATTEMPTS_FAILED" <=> (pc = "done" /\ attempt = max + 1))
    /\ [][(variant \in {"v9", "v11"}) =>
            ( /\ (pc # "delay" /\ pc' = "delay") =>
                   timer' = IF variant = "v9" /\ observed' = RateLimit /\ answer' # NoHash
                            THEN 3000 ELSE 1500
              /\ (pc = "delay" /\ pc' # "delay") =>
                   (attempt' = attempt + 1 /\ pc' = "loop") )]_vars

C35_Witness ==
    /\ variant = "v9"
    /\ pc = "done"
    /\ attempt = 16
    /\ observed = RateLimit
    /\ result.kind = "ALL_ATTEMPTS_FAILED"

----------------------------------------------------------------------------
(* The order of the checks *)

\* C36: v6.0 and v7.0 answer with the first check that fails, in the order
\* method, required fields, (v7.0) fee mechanism, too early, key derivation,
\* account load: a request that fails an earlier check never has the clock
\* read; one that is too early returns TOO_EARLY whatever its keyphrase is; a
\* key failure or an account load happens only to a request that passed all
\* the checks before it.
C36_CheckOrder ==
    variant \in {"v6", "v7"} =>
        LET ms == MsUntilUnlock(variant, req, env, clock, syncMs)
            first == IF req.method # "POST" THEN "METHOD_NOT_ALLOWED"
                     ELSE IF ~FieldsPresent(variant, req) THEN "MISSING_FIELDS"
                     ELSE IF variant = "v7" /\ req.feeMechanism # "CUSTOM" THEN "NOT_CUSTOM"
                     ELSE "pass"
        IN  /\ first # "pass" =>
                /\ clock = "none"
                /\ ~account.loaded
                /\ pc = "done" => result.kind = first
            /\ result.kind \in {"METHOD_NOT_ALLOWED", "MISSING_FIELDS", "NOT_CUSTOM"} =>
                result.kind = first
            /\ (first = "pass" /\ clock # "none" /\ ms > 7000 /\ pc = "done") =>
                result.kind = "TOO_EARLY"
            /\ (result.kind = "CRITICAL" \/ account.loaded \/ pc \in {"keys", "preload"}) =>
                (first = "pass" /\ clock # "none" /\ ms <= 7000)
            /\ (account.loaded \/ pc = "preload") => req.keyOk

C36_Witness ==
    /\ variant = "v7"
    /\ ~req.keyOk
    /\ pc = "done"
    /\ result.kind = "TOO_EARLY"

----------------------------------------------------------------------------
(* A submission that resolves without a hash *)

\* C37: in v6.0, v9.0 and v11.0 the step in which a submission resolves
\* without a hash returns nothing and catches nothing: it leaves the response,
\* the caught error and the last error as they were and starts the standard
\* delay (600 / 1500 ms) of the same attempt; from there the handler leaves
\* only through the next iteration or, the bound closed, the lost-race result.
C37_NoHashGoesRound ==
    /\ []((variant \in {"v6", "v9", "v11"} /\ answer = NoHash) =>
            /\ pc \in {"delay", "loop", "done"}
            /\ ~Succeeded(result)
            /\ ~Aborted(result)
            /\ pc = "done" => (Exhausted(result) /\ ~LoopBoundOpen(variant, now, attempt)))
    /\ [][(variant \in {"v6", "v9", "v11"} /\ pc = "await" /\ answer' = NoHash) =>
            ( /\ pc' = "delay"
              /\ timer' = IF variant = "v6" THEN 600 ELSE 1500
              /\ attempt' = attempt
              /\ result' = result
              /\ observed' = observed
              /\ lastError' = lastError )]_vars

C37_Witness ==
    /\ variant = "v6"
    /\ pc = "delay"
    /\ attempt = 2
    /\ answer = NoHash
    /\ lastError = BadSeq

====
